---- MODULE Spec2Model ----
(***************************************************************************)
(* A model of module_stat: the MOAB XML record loader and node-spec        *)
(* decoder (job_xml.py), the job-script analyser (modules.py) and the      *)
(* usage counters (stats.py).                                              *)
(*                                                                         *)
(* Python strings are modelled as sequences of one-character strings, so   *)
(* that slicing, splitting, substring tests and int() are computed, not    *)
(* assumed.  Python's None is the value None below.                        *)
(***************************************************************************)
EXTENDS Integers, Sequences, FiniteSets, TLC

(***************************************************************************)
(* Bounds of the model                                                     *)
(***************************************************************************)
\* the longest 'nodes' text, in colon-separated parts
MaxParts == 4

\* the longest script, in lines
MaxLines == 2

\* the largest count a counter is taken to
MaxCount == 2

\* the largest showtop
MaxTop == 3

\* the most elements of a job record
MaxElems == 3

\* the most module directories in the software directory of the first toolchain
MaxMods == 2

\* the most script files of a corpus
MaxScripts == 3

(***************************************************************************)
(* Python values and str methods                                           *)
(***************************************************************************)
\* None: a one-element tuple that is no string (its element has 4 characters)
None == <<"None">>

Digits == <<"0","1","2","3","4","5","6","7","8","9">>

Whitespace == {" ", "\t", "\n", "\r"}

\* sub in s
Contains(sub, s) ==
  \E i \in 1..(Len(s) - Len(sub) + 1) : SubSeq(s, i, i + Len(sub) - 1) = sub

\* s.startswith(pre)
StartsWith(s, pre) ==
  /\ Len(pre) <= Len(s)
  /\ SubSeq(s, 1, Len(pre)) = pre

\* s[a:b] for 0 <= a <= b
Slice(s, a, b) == SubSeq(s, a + 1, IF b < Len(s) THEN b ELSE Len(s))

\* s[a:] for 0 <= a
From(s, a) == SubSeq(s, a + 1, Len(s))

\* s[:-1]
DropLast(s) == SubSeq(s, 1, Len(s) - 1)

\* the 1-based index of the first c in s at or after i, or 0
RECURSIVE Find(_, _, _)
Find(s, c, i) ==
  IF i > Len(s) THEN 0
  ELSE IF s[i] = c THEN i
  ELSE Find(s, c, i + 1)

\* s.split(c) for a one-character separator: empty pieces are kept
RECURSIVE Split(_, _)
Split(s, c) ==
  LET i == Find(s, c, 1)
  IN  IF i = 0 THEN <<s>>
      ELSE <<SubSeq(s, 1, i - 1)>> \o Split(SubSeq(s, i + 1, Len(s)), c)

\* c.join(parts)
RECURSIVE Join(_, _)
Join(parts, c) ==
  IF Len(parts) = 0 THEN <<>>
  ELSE IF Len(parts) = 1 THEN parts[1]
  ELSE parts[1] \o <<c>> \o Join(Tail(parts), c)

\* s.lstrip()
RECURSIVE LStrip(_)
LStrip(s) ==
  IF Len(s) > 0 /\ s[1] \in Whitespace THEN LStrip(Tail(s)) ELSE s

\* s.rstrip()
RECURSIVE RStrip(_)
RStrip(s) ==
  IF Len(s) > 0 /\ s[Len(s)] \in Whitespace THEN RStrip(DropLast(s)) ELSE s

\* s.strip()
Strip(s) == RStrip(LStrip(s))

\* s.rstrip('\r\n')
RECURSIVE RStripCRLF(_)
RStripCRLF(s) ==
  IF Len(s) > 0 /\ s[Len(s)] \in {"\r", "\n"} THEN RStripCRLF(DropLast(s)) ELSE s

\* s.split(): pieces between runs of whitespace, no empty piece
RECURSIVE SplitWS(_)
SplitWS(s) ==
  LET t == LStrip(s)
      RECURSIVE WordEnd(_)
      WordEnd(i) == IF i > Len(t) \/ t[i] \in Whitespace THEN i - 1 ELSE WordEnd(i + 1)
  IN  IF Len(t) = 0 THEN <<>>
      ELSE LET e == WordEnd(1)
           IN  <<SubSeq(t, 1, e)>> \o SplitWS(SubSeq(t, e + 1, Len(t)))

\* s.replace(old, '') for a non-empty old: every occurrence, left to right
RECURSIVE Remove(_, _)
Remove(s, old) ==
  IF Len(s) = 0 THEN <<>>
  ELSE IF StartsWith(s, old) THEN Remove(From(s, Len(old)), old)
  ELSE <<s[1]>> \o Remove(Tail(s), old)

\* s.replace(old, new): every occurrence, from the left
RECURSIVE Replace(_, _, _)
Replace(s, old, new) ==
  IF Len(s) = 0 THEN <<>>
  ELSE IF StartsWith(s, old) THEN new \o Replace(From(s, Len(old)), old, new)
  ELSE <<s[1]>> \o Replace(Tail(s), old, new)

\* s[-n:]
Last(s, n) == IF Len(s) <= n THEN s ELSE SubSeq(s, Len(s) - n + 1, Len(s))

DigitValue(c) == (CHOOSE i \in 1..10 : Digits[i] = c) - 1

IsDigit(c) == \E i \in 1..10 : Digits[i] = c

RECURSIVE DigitsValue(_)
DigitsValue(s) ==
  IF Len(s) = 0 THEN 0 ELSE 10 * DigitsValue(DropLast(s)) + DigitValue(s[Len(s)])

\* int(s) succeeds: optional blanks around an optional sign and decimal digits
IsInt(s) ==
  LET t == Strip(s)
      d == IF Len(t) > 0 /\ t[1] \in {"+", "-"} THEN Tail(t) ELSE t
  IN  /\ Len(d) > 0
      /\ \A i \in 1..Len(d) : IsDigit(d[i])

\* int(s) where IsInt(s)
Int10(s) ==
  LET t == Strip(s)
  IN  IF t[1] = "-" THEN 0 - DigitsValue(Tail(t))
      ELSE IF t[1] = "+" THEN DigitsValue(Tail(t))
      ELSE DigitsValue(t)

\* str(n) for n >= 0
RECURSIVE Str(_)
Str(n) ==
  IF n < 10 THEN <<Digits[n + 1]>>
  ELSE Str(n \div 10) \o <<Digits[(n % 10) + 1]>>

\* the sequences over S of length lo..hi
SeqsOf(S, lo, hi) == UNION {[1..n -> S] : n \in lo..hi}

(***************************************************************************)
(* job_xml.py: string constants                                            *)
(***************************************************************************)
s_haswell == <<"h","a","s","w","e","l","l">>

\* the tag as the code spells it
s_ivybrdige == <<"i","v","y","b","r","d","i","g","e">>

s_ivybridge == <<"i","v","y","b","r","i","d","g","e">>

s_ppn == <<"p","p","n">>

(***************************************************************************)
(* modules.py: string constants                                            *)
(***************************************************************************)

s_module_load ==
  <<"m","o","d","u","l","e"," ","l","o","a","d">>

s_switch_to ==
  <<"s","o","u","r","c","e"," ","s","w","i","t","c","h","_","t","o","_","2","0","1">>

\* the phrase __find_toolchain looks for
s_module_use_slash ==
  <<"m","o","d","u","l","e"," ","u","s","e"," ","/","a","p","p","s","/","l","e","u","v",
    "e","n","/">>

\* the phrase __set_toolchain looks for
s_module_use ==
  <<"m","o","d","u","l","e"," ","u","s","e"," ","/","a","p","p","s","/","l","e","u","v",
    "e","n">>

skip_chars == {"-", "$", ";", "*", "\""}

(***************************************************************************)
(* The script lines the files are made of (readlines keeps the newline)    *)
(***************************************************************************)

line_python361 ==
  <<"m","o","d","u","l","e"," ","l","o","a","d"," ","P","y","t","h","o","n","/","3",".",
    "6",".","1","\n">>

line_python27 ==
  <<"m","o","d","u","l","e"," ","l","o","a","d"," ","P","y","t","h","o","n","/","2",".",
    "7","\n">>

line_matlab ==
  <<"m","o","d","u","l","e"," ","l","o","a","d"," ","m","a","t","l","a","b","/","R","2",
    "0","1","7","b","\n">>

line_R ==
  <<" "," ","m","o","d","u","l","e"," ","l","o","a","d"," ","R","\n">>

line_abc ==
  <<"m","o","d","u","l","e"," ","l","o","a","d"," ","a","/","b","/","c","\n">>

line_monitor ==
  <<"m","o","n","i","t","o","r"," ","-","l"," ","r","u","n","t","i","m","e",".","l","o",
    "g"," ","-","-"," ","m","a","t","l","a","b"," ","-","n","o","d","i","s","p","l","a",
    "y"," ","-","n","o","j","v","m"," ","-","r"," ","\"","M","y","E","x","e","c"," ",
    "1"," ","2"," ","3","\"","\n">>

line_switch ==
  <<"s","o","u","r","c","e"," ","s","w","i","t","c","h","_","t","o","_","2","0","1","5",
    "a","\n">>

line_use ==
  <<"m","o","d","u","l","e"," ","u","s","e"," ","/","a","p","p","s","/","l","e","u","v",
    "e","n","/","t","h","i","n","k","i","n","g","/","2","0","1","6","a","/","m","o","d",
    "u","l","e","s","/","a","l","l","\n">>

line_switch_use ==
  <<"s","o","u","r","c","e"," ","s","w","i","t","c","h","_","t","o","_","2","0","1","5",
    "a",";"," ","m","o","d","u","l","e"," ","u","s","e"," ","/","a","p","p","s","/","l",
    "e","u","v","e","n","/","t","h","i","n","k","i","n","g","/","2","0","1","6","a","/",
    "m","o","d","u","l","e","s","/","a","l","l","\n">>

line_switch_use18 ==
  <<"s","o","u","r","c","e"," ","s","w","i","t","c","h","_","t","o","_","2","0","1","8",
    "a",";"," ","m","o","d","u","l","e"," ","u","s","e"," ","/","a","p","p","s","/","l",
    "e","u","v","e","n","/","t","h","i","n","k","i","n","g","/","2","0","1","8","a","/",
    "m","o","d","u","l","e","s","/","a","l","l","\n">>

line_use_switch ==
  <<"m","o","d","u","l","e"," ","u","s","e"," ","/","a","p","p","s","/","l","e","u","v",
    "e","n","/","x",";"," ","s","o","u","r","c","e"," ","s","w","i","t","c","h","_","t",
    "o","_","2","0","1","5","a","\n">>

line_ls ==
  <<"l","s","\n">>

line_comment ==
  <<"#"," ","m","o","d","u","l","e"," ","l","o","a","d"," ","R","\n">>

line_export ==
  <<"e","x","p","o","r","t"," ","A","=","1","\n">>

LineVocab ==
  {line_python361, line_python27, line_matlab, line_R, line_abc, line_monitor,
   line_switch, line_use, line_switch_use, line_switch_use18, line_use_switch,
   line_ls, line_comment, line_export}

(***************************************************************************)
(* The state                                                               *)
(***************************************************************************)
VARIABLES
  \* job_xml.JB
  root,        \* the XML record: a sequence of elements [tag, text] in document order
  attrs,       \* the JB attributes filled from the record (jobid .. total_runtime, machine)
  ppn,         \* JB.ppn
  jb_pc,       \* "new", "done", or the exception the constructor raised
  \* modules.module
  file_sc,     \* the script file: its lines as readlines gives them
  lines,       \* module.lines: the retained lines, stripped (None before __read)
  toolchain,   \* module.toolchain
  loaded,      \* module.loaded: module name -> version or None
  called,      \* module.called: candidate token -> None
  used,        \* module.used
  m_i,         \* the line __find_module_use is at
  m_pc,        \* where module.__init__ is, "done", or the exception it raised
  \* stats.stats
  software_dirs,    \* the file system: toolchain -> the directories under its software/
  files,            \* the file system: file name -> its lines, or None for no such file
  executables_file, \* stats.executables_file
  avail_modules,    \* stats.avail_modules: toolchain -> list of 'module/version'
  module_counter,   \* stats.module_counter: module name -> count
  version_counter,  \* stats.version_counter: 'year/module/version' -> count
  executables,      \* stats.executables: executable name -> module name
  st_ret,           \* the last call on the stats object: [op, arg, err, val], val what
                    \* it returned (or the rows it wrote to the ranking file)
  st_pc,            \* "new", "ready", or the exception stats.__init__ ended with
  \* scripts.script
  paths,            \* the paths that exist in the file system
  sc_arg,           \* the file_sc argument of script(file_sc)
  sc_xml,           \* file_xml: what get_xml_filename returned, None before the call
  sc_pc,            \* "idle", "new", "JB", "module", "done", or the exception raised
  \* collect_module_use_stats
  variant,          \* which of the two scripts runs: "run" (src/run/) or "src"
  script_files,     \* the script files in loop order, each as what script(file) gives
  c_i,              \* the file the for loop is at
  n_all,            \* the tallies
  n_OK,
  n_no_JB,
  n_no_use,
  n_bad,
  c_pc              \* "idle", "loop", "done", or the exception that ended the function

jb_vars == <<root, attrs, ppn, jb_pc>>

module_vars == <<file_sc, lines, toolchain, loaded, called, used, m_i, m_pc>>

stats_vars ==
  <<software_dirs, files, executables_file, avail_modules, module_counter,
    version_counter, executables, st_ret, st_pc>>

script_vars == <<paths, sc_arg, sc_xml, sc_pc>>

corpus_vars == <<variant, script_files, c_i, n_all, n_OK, n_no_JB, n_no_use, n_bad, c_pc>>

vars == <<jb_vars, module_vars, stats_vars, script_vars, corpus_vars>>

(***************************************************************************)
(* job_xml.JB                                                              *)
(***************************************************************************)
\* the attributes as_dict looks for: the instance attributes but the excluded ones
XmlAttrs ==
  {"jobid", "queue", "Job_Name", "job_state", "Account_Name", "ctime", "mtime",
   "qtime", "etime", "Priority", "nodes", "nodect", "pmem", "walltime", "euser",
   "egroup", "submit_arg", "comp_time", "total_runtime", "machine"}

\* a variant that keeps the first text of a repeated tag
RECURSIVE as_dict_upto_first(_, _)
as_dict_upto_first(r, n) ==
  IF n = 0 THEN <<>>
  ELSE LET d == as_dict_upto_first(r, n - 1)
           e == r[n]
       IN  IF e.tag \notin XmlAttrs THEN d
           ELSE d @@ (e.tag :> e.text)

\* as_dict over the first n elements of the record: the last text of each tag
RECURSIVE as_dict_upto(_, _)
as_dict_upto(r, n) ==
  IF n = 0 THEN <<>>
  ELSE LET d == as_dict_upto(r, n - 1)
           e == r[n]
       IN  IF e.tag \notin XmlAttrs THEN d
           ELSE (e.tag :> e.text) @@ d

as_dict(r) == as_dict_upto(r, Len(r))

\* __allocate: setattr for every pair of as_dict, on the defaults (all None)
allocate(r) ==
  LET d == as_dict(r)
  IN  [a \in XmlAttrs |-> IF a \in DOMAIN d THEN d[a] ELSE None]

\* the nested get_ppn_and_machine, from part i on, with the values so far
RECURSIVE ppn_and_machine_from(_, _, _, _)
ppn_and_machine_from(parts, i, p0, m0) ==
  IF i > Len(parts) THEN [ppn |-> p0, machine |-> m0, err |-> "ok"]
  ELSE LET p  == parts[i]
           m1 == IF p = s_haswell THEN s_haswell ELSE m0
           m2 == IF p = s_ivybrdige THEN s_ivybridge ELSE m1
       IN  IF Contains(s_ppn, p)
           THEN IF IsInt(From(p, 4))
                THEN ppn_and_machine_from(parts, i + 1, Int10(From(p, 4)), m2)
                ELSE [ppn |-> p0, machine |-> m2, err |-> "ValueError"]
           ELSE ppn_and_machine_from(parts, i + 1, p0, m2)

\* a variant that takes the core count from the second part only
get_ppn_and_machine_second_part(parts) ==
  LET r == ppn_and_machine_from(parts, 1, 1, None)
  IN  IF r.err = "ok" /\ ~Contains(s_ppn, parts[2]) THEN [r EXCEPT !.ppn = 1] ELSE r

get_ppn_and_machine(parts) == ppn_and_machine_from(parts, 1, 1, None)

\* a variant that decodes four parts too
set_ppn_upto_four(a, p0) ==
  LET nodes == a["nodes"]
      keep  == [ppn |-> p0, machine |-> a["machine"], err |-> "ok"]
  IN  IF nodes = None THEN keep
      ELSE IF ~Contains(<<":">>, nodes) THEN keep
      ELSE LET parts == Split(nodes, ":")
           IN  IF Len(parts) = 1 THEN [ppn |-> 1, machine |-> None, err |-> "ok"]
               ELSE IF Len(parts) \in {2, 3, 4} THEN get_ppn_and_machine(parts)
               ELSE [ppn |-> p0, machine |-> a["machine"], err |-> "IndexError"]

\* __set_ppn on the attributes after __allocate: the new (ppn, machine), or the exception
set_ppn(a, p0) ==
  LET nodes == a["nodes"]
      keep  == [ppn |-> p0, machine |-> a["machine"], err |-> "ok"]
  IN  IF nodes = None THEN keep
      ELSE IF ~Contains(<<":">>, nodes) THEN keep
      ELSE LET parts == Split(nodes, ":")
           IN  IF Len(parts) = 1 THEN [ppn |-> 1, machine |-> None, err |-> "ok"]
               ELSE IF Len(parts) \in {2, 3} THEN get_ppn_and_machine(parts)
               ELSE [ppn |-> p0, machine |-> a["machine"], err |-> "IndexError"]

\* JB.__init__ once the file exists and is parsed: defaults, __allocate, __set_ppn
JBInit ==
  /\ jb_pc = "new"
  /\ LET a == allocate(root)
         r == set_ppn(a, 1)
     IN  /\ attrs' = IF r.err = "ok" THEN [a EXCEPT !["machine"] = r.machine] ELSE a
         /\ ppn' = IF r.err = "ok" THEN r.ppn ELSE 1
         /\ jb_pc' = IF r.err = "ok" THEN "done" ELSE r.err
  /\ UNCHANGED <<root, module_vars, stats_vars, script_vars, corpus_vars>>

\* the 'nodes' parts the records are built from
PartVocab ==
  { <<"1">>, <<"p","p","n","=","4">>, <<"p","p","n","=","8">>, s_haswell,
    s_ivybrdige, s_ivybridge, <<"p","p","n","=","x">>, <<"x","p","p","n","=","8">> }

\* the 'nodes' texts: 1..MaxParts parts joined by ':'
NodeStrings == {Join(q, ":") : q \in SeqsOf(PartVocab, 1, MaxParts)}

Element(tag, text) == [tag |-> tag, text |-> text]

\* a record without a nodes tag, or with one
NodeRecords == {<<>>} \cup {<<Element("nodes", s)>> : s \in NodeStrings}

\* the elements the records with several tags are built from: nodes texts without and
\* with ':', an empty nodes element, a repeated tag, the tags 'machine' and 'ppn', and
\* a tag that is no attribute
ElementVocab ==
  { Element("nodes", <<"2">>),
    Element("nodes", <<"1",":","p","p","n","=","4">>),
    Element("nodes", <<"h","a","s","w","e","l","l",":","p","p","n","=","8">>),
    Element("nodes", <<"1",":","p","p","n","=","4",":","h","a","s","w","e","l","l",":","1">>),
    Element("nodes", None),
    Element("queue", <<"q","1","h">>),
    Element("queue", <<"q","2","4","h">>),
    Element("machine", <<"h","a","s","w","e","l","l">>),
    Element("ppn", <<"8">>),
    Element("foo", <<"x">>) }

\* the records: the elements of the XML tree in document order
Records == SeqsOf(ElementVocab, 0, MaxElems)

(***************************************************************************)
(* modules.module                                                          *)
(***************************************************************************)
\* __read: drop the lines that start with '#' once stripped, strip the others
RECURSIVE read(_)
read(orig) ==
  IF Len(orig) = 0 THEN <<>>
  ELSE LET raw == Strip(orig[1])
       IN  IF StartsWith(raw, <<"#">>) THEN read(Tail(orig))
           ELSE <<raw>> \o read(Tail(orig))

\* __set_toolchain(line) with self.toolchain = cur: the new toolchain, or the exception
set_toolchain(line, cur) ==
  LET t       == Strip(line)
      check_1 == Contains(s_switch_to, t)
      check_2 == Contains(s_module_use, t)
      seg     == Split(t, "/")
  IN  IF ~(check_1 /\ check_2) THEN [toolchain |-> cur, err |-> "ok"]
      ELSE IF check_1 /\ ~IsInt(Slice(t, 17, 21))
           THEN [toolchain |-> cur, err |-> "ValueError"]
      ELSE IF check_2 /\ Len(seg) < 5
           THEN [toolchain |-> cur, err |-> "IndexError"]
      ELSE IF check_2 /\ ~IsInt(DropLast(seg[5]))
           THEN [toolchain |-> cur, err |-> "ValueError"]
      ELSE IF check_2 THEN [toolchain |-> Int10(DropLast(seg[5])), err |-> "ok"]
      ELSE [toolchain |-> Int10(Slice(t, 17, 21)), err |-> "ok"]

\* the loop of __find_toolchain from line i on, with self.toolchain = cur
RECURSIVE find_toolchain_from(_, _, _)
find_toolchain_from(ls, i, cur) ==
  IF i > Len(ls) THEN [toolchain |-> cur, err |-> "ok"]
  ELSE LET line == ls[i]
       IN  IF Contains(s_switch_to, line) \/ Contains(s_module_use_slash, line)
           THEN LET r == set_toolchain(RStripCRLF(line), cur)
                IN  IF r.err = "ok" THEN find_toolchain_from(ls, i + 1, r.toolchain)
                    ELSE r
           ELSE find_toolchain_from(ls, i + 1, cur)

\* a variant that keeps the version a name already has
add_module_keep_first(mod, ld) ==
  LET m     == Strip(Remove(mod, s_module_load))
      parts == Split(m, "/")
  IN  IF Contains(<<"/">>, m)
      THEN IF Len(parts) = 2
           THEN [loaded |-> ld @@ (parts[1] :> parts[2]), err |-> "ok"]
           ELSE [loaded |-> ld, err |-> "ValueError"]
      ELSE [loaded |-> ld @@ (m :> None), err |-> "ok"]

\* __add_module(mod) on self.loaded = ld: the new dictionary, or the exception
add_module(mod, ld) ==
  LET m     == Strip(Remove(mod, s_module_load))
      parts == Split(m, "/")
  IN  IF Contains(<<"/">>, m)
      THEN IF Len(parts) = 2
           THEN [loaded |-> (parts[1] :> parts[2]) @@ ld, err |-> "ok"]
           ELSE [loaded |-> ld, err |-> "ValueError"]
      ELSE [loaded |-> (m :> None) @@ ld, err |-> "ok"]

\* __add_calls(candidates) on self.called = cd, from candidate i on
RECURSIVE add_calls_from(_, _, _)
add_calls_from(candidates, i, cd) ==
  IF i > Len(candidates) THEN cd
  ELSE add_calls_from(candidates, i + 1, (candidates[i] :> None) @@ cd)

add_calls(candidates, cd) == add_calls_from(candidates, 1, cd)

\* the words __check_calls keeps
maybe(words) ==
  SelectSeq(words, LAMBDA word : ~(word[1] \in skip_chars \/ Contains(<<"=">>, word)))

\* a variant that does not skip the lines of one word
check_calls_one_word_too(line, cd) == add_calls(maybe(SplitWS(line)), cd)

\* __check_calls(line) on self.called = cd
check_calls(line, cd) ==
  LET words == SplitWS(line)
  IN  IF Len(words) = 1 THEN cd
      ELSE add_calls(maybe(words), cd)

\* dict(loaded, **called)
merge_used(ld, cd) == cd @@ ld

\* module.__init__, the script file existing: __read
ReadScript ==
  /\ m_pc = "new"
  /\ lines' = read(file_sc)
  /\ m_pc' = "find_toolchain"
  /\ UNCHANGED <<file_sc, toolchain, loaded, called, used, m_i, jb_vars, stats_vars, script_vars,
                 corpus_vars>>

\* module.__init__: __find_toolchain
FindToolchain ==
  /\ m_pc = "find_toolchain"
  /\ LET r == find_toolchain_from(lines, 1, toolchain)
     IN  /\ toolchain' = r.toolchain
         /\ m_pc' = IF r.err = "ok" THEN "find_module_use" ELSE r.err
  /\ UNCHANGED <<file_sc, lines, loaded, called, used, m_i, jb_vars, stats_vars, script_vars,
                 corpus_vars>>

\* __find_module_use: a line that starts with 'module load'
AddModule ==
  /\ m_pc = "find_module_use"
  /\ m_i <= Len(lines)
  /\ StartsWith(Strip(lines[m_i]), s_module_load)
  /\ LET r == add_module(lines[m_i], loaded)
     IN  /\ loaded' = r.loaded
         /\ m_pc' = IF r.err = "ok" THEN m_pc ELSE r.err
  /\ m_i' = m_i + 1
  /\ UNCHANGED <<file_sc, lines, toolchain, called, used, jb_vars, stats_vars, script_vars,
                 corpus_vars>>

\* __find_module_use: any other line
CheckCalls ==
  /\ m_pc = "find_module_use"
  /\ m_i <= Len(lines)
  /\ ~StartsWith(Strip(lines[m_i]), s_module_load)
  /\ called' = check_calls(lines[m_i], called)
  /\ m_i' = m_i + 1
  /\ UNCHANGED <<file_sc, lines, toolchain, loaded, used, m_pc, jb_vars, stats_vars, script_vars,
                 corpus_vars>>

\* __find_module_use: after the loop
SetUsed ==
  /\ m_pc = "find_module_use"
  /\ m_i > Len(lines)
  /\ used' = merge_used(loaded, called)
  /\ m_pc' = "done"
  /\ UNCHANGED <<file_sc, lines, toolchain, loaded, called, m_i, jb_vars, stats_vars, script_vars,
                 corpus_vars>>

(***************************************************************************)
(* stats.stats                                                             *)
(***************************************************************************)
avail_toolchain == <<2014, 2015, 2016, 2018>>

Toolchains == {avail_toolchain[i] : i \in 1..Len(avail_toolchain)}

\* check_cluster accepts these (cluster.lower() of the names the callers pass)
ValidClusters == {"thinking", "cerebro", "genius", "breniac"}

\* the key get_dic_module_counter makes of an avail_modules entry
module_key(m) == IF Contains(<<"/">>, m) THEN Split(m, "/")[1] ELSE m

\* get_dic_module_counter with self.avail_modules = am
get_dic_module_counter(am) ==
  LET keys == UNION {{module_key(am[tc][i]) : i \in 1..Len(am[tc])} : tc \in DOMAIN am}
  IN  [k \in keys |-> 0]

\* the order in which get_dic_module_counter inserts its keys: toolchain by toolchain,
\* module by module, a key keeping the place of its first insertion
RECURSIVE module_counter_keys(_, _, _, _)
module_counter_keys(am, t, i, keys) ==
  IF t > Len(avail_toolchain) THEN keys
  ELSE IF i > Len(am[avail_toolchain[t]]) THEN module_counter_keys(am, t + 1, 1, keys)
  ELSE LET key == module_key(am[avail_toolchain[t]][i])
       IN  module_counter_keys(am, t, i + 1,
             IF \E j \in 1..Len(keys) : keys[j] = key THEN keys ELSE Append(keys, key))

\* the key get_dic_version_counter makes: '{0}/{1}'.format(toolchain, avail_module)
version_key(tc, m) == Str(tc) \o <<"/">> \o m

\* get_dic_version_counter with self.avail_modules = am
get_dic_version_counter(am) ==
  LET keys == UNION {{version_key(tc, am[tc][i]) : i \in 1..Len(am[tc])} : tc \in DOMAIN am}
  IN  [k \in keys |-> 0]

\* increment_version_count on self.version_counter = vc: version not None reads the
\* undefined name 'verison'
increment_version_count(tc, module, version, vc) ==
  LET key == version_key(tc, module)
  IN  IF version # None THEN [version_counter |-> vc, err |-> "NameError"]
      ELSE IF key \notin DOMAIN vc THEN [version_counter |-> vc, err |-> "ok"]
      ELSE [version_counter |-> [vc EXCEPT ![key] = @ + 1], err |-> "ok"]

\* a variant that counts a resolved name twice
increment_module_count_twice(which, mc, ex) ==
  LET is_module == which \in DOMAIN mc
      is_exec   == which \in DOMAIN ex
      module    == IF is_module THEN which ELSE ex[which]
  IN  IF ~is_module /\ ~is_exec THEN [module_counter |-> mc, err |-> "ok"]
      ELSE IF module \notin DOMAIN mc THEN [module_counter |-> mc, err |-> "KeyError"]
      ELSE [module_counter |-> [mc EXCEPT ![module] = @ + 2], err |-> "ok"]

\* a variant that looks the name up in the executable map first
increment_module_count_exec_first(which, mc, ex) ==
  LET module == IF which \in DOMAIN ex THEN ex[which] ELSE which
  IN  IF which \notin DOMAIN mc /\ which \notin DOMAIN ex
      THEN [module_counter |-> mc, err |-> "ok"]
      ELSE IF module \notin DOMAIN mc THEN [module_counter |-> mc, err |-> "KeyError"]
      ELSE [module_counter |-> [mc EXCEPT ![module] = @ + 1], err |-> "ok"]

\* a variant with the 'raise KeyError' of the last branch in place
increment_module_count_raise_unknown(which, mc, ex) ==
  LET is_module == which \in DOMAIN mc
      is_exec   == which \in DOMAIN ex
      module    == IF is_module THEN which ELSE ex[which]
  IN  IF ~is_module /\ ~is_exec THEN [module_counter |-> mc, err |-> "KeyError"]
      ELSE IF module \notin DOMAIN mc THEN [module_counter |-> mc, err |-> "KeyError"]
      ELSE [module_counter |-> [mc EXCEPT ![module] = @ + 1], err |-> "ok"]

\* a variant that passes over an executable whose module has no counter
increment_module_count_skip_uncounted(which, mc, ex) ==
  LET is_module == which \in DOMAIN mc
      is_exec   == which \in DOMAIN ex
      module    == IF is_module THEN which ELSE ex[which]
  IN  IF ~is_module /\ ~is_exec THEN [module_counter |-> mc, err |-> "ok"]
      ELSE IF module \notin DOMAIN mc THEN [module_counter |-> mc, err |-> "ok"]
      ELSE [module_counter |-> [mc EXCEPT ![module] = @ + 1], err |-> "ok"]

\* increment_module_count(which) on self.module_counter = mc, self.executables = ex
increment_module_count(which, mc, ex) ==
  LET is_module == which \in DOMAIN mc
      is_exec   == which \in DOMAIN ex
      module    == IF is_module THEN which ELSE ex[which]
  IN  IF ~is_module /\ ~is_exec THEN [module_counter |-> mc, err |-> "ok"]
      ELSE IF module \notin DOMAIN mc THEN [module_counter |-> mc, err |-> "KeyError"]
      ELSE [module_counter |-> [mc EXCEPT ![module] = @ + 1], err |-> "ok"]

\* a variant without the reversal [::-1]: counts never decreasing
sorted_orders_ascending(mc) ==
  LET n == Cardinality(DOMAIN mc)
  IN  { q \in [1..n -> DOMAIN mc] :
          /\ \A i, j \in 1..n : i # j => q[i] # q[j]
          /\ \A i, j \in 1..n : i < j => mc[q[i]] <= mc[q[j]] }

\* the orders np.argsort(vals)[::-1] can give the keys: counts never increasing
\* (the order of equal counts is the sort routine's)
sorted_orders(mc) ==
  LET n == Cardinality(DOMAIN mc)
  IN  { q \in [1..n -> DOMAIN mc] :
          /\ \A i, j \in 1..n : i # j => q[i] # q[j]
          /\ \A i, j \in 1..n : i < j => mc[q[i]] >= mc[q[j]] }

\* a variant that lets showtop = 0 through
bad_showtop_negative(showtop) == ~showtop.is_int \/ showtop.v < 0

\* sort_module_counts raises ValueError for these
bad_showtop(showtop) == ~showtop.is_int \/ showtop.v < 1

\* keys[:showtop], vals[:showtop] of the sorted order q
top_of(q, showtop, mc) ==
  LET n == IF Len(q) < showtop.v THEN Len(q) ELSE showtop.v
  IN  [keys |-> SubSeq(q, 1, n), vals |-> [i \in 1..n |-> mc[q[i]]]]

\* the rows of write_sort_module_counts_as_ascii: rank, count, module
rows_of(top) == [i \in 1..Len(top.keys) |-> <<i, top.vals[i], top.keys[i]>>]

\* read_dic_executables on the lines of an existing file, from line i on
RECURSIVE read_dic_from(_, _, _)
read_dic_from(ls, i, dic) ==
  IF i > Len(ls) THEN [dic |-> dic, err |-> "ok"]
  ELSE LET kv == SplitWS(RStripCRLF(ls[i]))
       IN  IF Len(kv) # 2 THEN [dic |-> dic, err |-> "ValueError"]
           ELSE read_dic_from(ls, i + 1, (kv[1] :> kv[2]) @@ dic)

\* read_dic_executables(filename): None for a missing file
read_dic_executables(content) ==
  IF content = None THEN [dic |-> None, err |-> "ok"]
  ELSE read_dic_from(content, 1, <<>>)

\* a variant that stores what it read whatever self.executables holds
read_and_set_dic_executables_always(content, ex) ==
  LET r == read_dic_executables(content)
  IN  IF r.err # "ok" THEN [executables |-> ex, err |-> r.err]
      ELSE IF r.dic = None THEN [executables |-> ex, err |-> "AttributeError"]
      ELSE [executables |-> r.dic, err |-> "ok"]

\* read_and_set_dic_executables on self.executables = ex: None has no copy()
read_and_set_dic_executables(content, ex) ==
  LET r == read_dic_executables(content)
  IN  IF ex # <<>> THEN [executables |-> ex, err |-> "ok"]
      ELSE IF r.err # "ok" THEN [executables |-> ex, err |-> r.err]
      ELSE IF r.dic = None THEN [executables |-> ex, err |-> "AttributeError"]
      ELSE [executables |-> r.dic, err |-> "ok"]

\* __set_dic_executables on self.executables = ex, self.executables_file = exec_file
set_dic_executables(ex, exec_file, fs) ==
  IF ex # <<>> THEN [executables |-> ex, err |-> "ok"]
  ELSE IF exec_file = None THEN [executables |-> ex, err |-> "RuntimeWarning"]
  ELSE read_and_set_dic_executables(fs[exec_file], ex)

\* '{0} {1}\n'.format(key, val)
exec_line(key, val) == key \o <<" ">> \o val \o <<"\n">>

\* the lines write_dic_executables makes of ex: one per item, in the order of the items
lines_of(ex) ==
  LET n == Cardinality(DOMAIN ex)
  IN  { [i \in 1..n |-> exec_line(q[i], ex[q[i]])] :
          q \in { f \in [1..n -> DOMAIN ex] : \A i, j \in 1..n : i # j => f[i] # f[j] } }

\* the module lists the setter is given for avail_modules
EmptyAvail == [tc \in Toolchains |-> <<>>]

SomeAvail ==
  [tc \in Toolchains |->
     IF tc = 2014 THEN << <<"R","/","3",".","4">>, <<"P","y">> >>
     ELSE IF tc = 2015 THEN << <<"P","y","/","2",".","7">> >>
     ELSE <<>>]

\* file names
f_executables == <<"e","x","e","c","u","t","a","b","l","e","s",".","t","x","t">>

f_missing == <<"m","i","s","s","i","n","g",".","t","x","t">>

\* the lines of executables.txt
ExecLines ==
  << <<"R","s","c","r","i","p","t"," ","R","\n">>,
     <<"m","c","c"," ","M","A","T","L","A","B","\n">>,
     <<"P","y"," ","R","\n">> >>

\* an executable map read from executables.txt, and one whose first key is a file
\* name with a blank in it
ExecFromFile == read_dic_from(ExecLines, 1, <<>>).dic

ExecWithBlank == (<<"a"," ","b">> :> <<"R">>) @@ (<<"R">> :> <<"R">>)

Ret(op, arg, err, val) == [op |-> op, arg |-> arg, err |-> err, val |-> val]

\* a variant with the call self.__set_dic_executables() of __init__ in place
StatsInitSetDicExecutables ==
  /\ st_pc = "new"
  /\ \E cluster \in ValidClusters \cup {"executables.txt"}, auto \in BOOLEAN,
        exec_file \in {None, f_executables} :
       /\ executables_file' = exec_file
       /\ st_pc' = IF cluster \notin ValidClusters THEN "SystemExit"
                   ELSE IF ~auto THEN "ready"
                   ELSE IF Len(software_dirs[avail_toolchain[1]]) = 0 THEN "ValueError"
                   ELSE "TypeError"
       /\ executables' = IF st_pc' = "ready"
                         THEN set_dic_executables(executables, exec_file, files).executables
                         ELSE executables
       /\ st_ret' = Ret("__init__", [cluster |-> cluster, exec_file |-> exec_file,
                                     auto |-> auto], st_pc', None)
  /\ UNCHANGED <<software_dirs, files, avail_modules, module_counter, version_counter,
                 jb_vars, module_vars, script_vars, corpus_vars>>

\* stats.__init__(cluster, exec_file, auto): with auto, __set_list_executables ends in
\* ValueError (an empty software directory) or in the TypeError of Popen(STDOUT=...);
\* __init__ then raises and the caller gets no object, so the attributes stay those
\* of StatsNew
StatsInit ==
  /\ st_pc = "new"
  /\ \E cluster \in ValidClusters \cup {"executables.txt"}, auto \in BOOLEAN,
        exec_file \in {None, f_executables} :
       /\ executables_file' = exec_file
       /\ st_pc' = IF cluster \notin ValidClusters THEN "SystemExit"
                   ELSE IF ~auto THEN "ready"
                   ELSE IF Len(software_dirs[avail_toolchain[1]]) = 0 THEN "ValueError"
                   ELSE "TypeError"
       /\ st_ret' = Ret("__init__", [cluster |-> cluster, exec_file |-> exec_file,
                                     auto |-> auto], st_pc', None)
  /\ UNCHANGED <<software_dirs, files, avail_modules, module_counter, version_counter,
                 executables, jb_vars, module_vars, script_vars, corpus_vars>>

\* the names increment_module_count is called with
Names ==
  { <<"R">>, <<"P","y">>, <<"m","c","c">>, <<"R","s","c","r","i","p","t">>, <<"l","s">> }

IncrementModuleCount ==
  /\ st_pc = "ready"
  /\ \E which \in Names :
       LET r == increment_module_count(which, module_counter, executables)
       IN  /\ \A k \in DOMAIN r.module_counter : r.module_counter[k] <= MaxCount
           /\ module_counter' = r.module_counter
           /\ st_ret' = Ret("increment_module_count", which, r.err, None)
  /\ UNCHANGED <<software_dirs, files, executables_file, avail_modules, version_counter,
                 executables, st_pc, jb_vars, module_vars, script_vars, corpus_vars>>

IncrementVersionCount ==
  /\ st_pc = "ready"
  /\ \E tc \in {2014, 2015}, module \in {<<"R">>, <<"P","y">>},
        version \in {None, <<"3",".","4">>} :
       LET r == increment_version_count(tc, module, version, version_counter)
       IN  /\ \A k \in DOMAIN r.version_counter : r.version_counter[k] <= MaxCount
           /\ version_counter' = r.version_counter
           /\ st_ret' = Ret("increment_version_count", <<tc, module, version>>, r.err, None)
  /\ UNCHANGED <<software_dirs, files, executables_file, avail_modules, module_counter,
                 executables, st_pc, jb_vars, module_vars, script_vars, corpus_vars>>

\* the values of showtop: integers, and one value that is no integer
ShowtopInputs ==
  {[is_int |-> TRUE, v |-> n] : n \in 0..MaxTop} \cup {[is_int |-> FALSE, v |-> 0]}

SortModuleCounts ==
  /\ st_pc = "ready"
  /\ \E showtop \in ShowtopInputs :
       IF bad_showtop(showtop)
       THEN st_ret' = Ret("sort_module_counts", showtop, "ValueError", None)
       ELSE \E q \in sorted_orders(module_counter) :
              st_ret' = Ret("sort_module_counts", showtop, "ok",
                            top_of(q, showtop, module_counter))
  /\ UNCHANGED <<software_dirs, files, executables_file, avail_modules, module_counter,
                 version_counter, executables, st_pc, jb_vars, module_vars, script_vars,
                 corpus_vars>>

WriteSortModuleCountsAsAscii ==
  /\ st_pc = "ready"
  /\ \E showtop \in ShowtopInputs :
       IF bad_showtop(showtop)
       THEN st_ret' = Ret("write_sort_module_counts_as_ascii", showtop, "ValueError", None)
       ELSE \E q \in sorted_orders(module_counter) :
              st_ret' = Ret("write_sort_module_counts_as_ascii", showtop, "ok",
                            rows_of(top_of(q, showtop, module_counter)))
  /\ UNCHANGED <<software_dirs, files, executables_file, avail_modules, module_counter,
                 version_counter, executables, st_pc, jb_vars, module_vars, script_vars,
                 corpus_vars>>

ReadAndSetDicExecutables ==
  /\ st_pc = "ready"
  /\ \E filename \in DOMAIN files :
       LET r == read_and_set_dic_executables(files[filename], executables)
       IN  /\ executables' = r.executables
           /\ st_ret' = Ret("read_and_set_dic_executables", filename, r.err, None)
  /\ UNCHANGED <<software_dirs, files, executables_file, avail_modules, module_counter,
                 version_counter, st_pc, jb_vars, module_vars, script_vars, corpus_vars>>

\* write_dic_executables(filename): fill an empty self.executables first, then write
\* one line per item
WriteDicExecutables ==
  /\ st_pc = "ready"
  /\ \E filename \in DOMAIN files :
       LET s == set_dic_executables(executables, executables_file, files)
       IN  IF s.err # "ok"
           THEN /\ executables' = executables
                /\ files' = files
                /\ st_ret' = Ret("write_dic_executables", filename, s.err, None)
           ELSE \E ls \in lines_of(s.executables) :
                  /\ executables' = s.executables
                  /\ files' = [files EXCEPT ![filename] = ls]
                  /\ st_ret' = Ret("write_dic_executables", filename, "ok", None)
  /\ UNCHANGED <<software_dirs, executables_file, avail_modules, module_counter,
                 version_counter, st_pc, jb_vars, module_vars, script_vars, corpus_vars>>

\* read_dic_executables(filename): returns the dictionary, sets nothing
ReadDicExecutables ==
  /\ st_pc = "ready"
  /\ \E filename \in DOMAIN files :
       LET r == read_dic_executables(files[filename])
       IN  st_ret' = Ret("read_dic_executables", filename, r.err,
                         IF r.err = "ok" THEN r.dic ELSE None)
  /\ UNCHANGED <<software_dirs, files, executables_file, avail_modules, module_counter,
                 version_counter, executables, st_pc, jb_vars, module_vars, script_vars,
                 corpus_vars>>

\* a variant that stores the fresh dictionary, as __set_dic_module_counter does
GetDicModuleCounterAndSet ==
  /\ st_pc = "ready"
  /\ module_counter' = get_dic_module_counter(avail_modules)
  /\ st_ret' = Ret("get_dic_module_counter", None, "ok", module_counter')
  /\ UNCHANGED <<software_dirs, files, executables_file, avail_modules, version_counter,
                 executables, st_pc, jb_vars, module_vars, script_vars, corpus_vars>>

GetDicModuleCounter ==
  /\ st_pc = "ready"
  /\ st_ret' = Ret("get_dic_module_counter", None, "ok", get_dic_module_counter(avail_modules))
  /\ UNCHANGED <<software_dirs, files, executables_file, avail_modules, module_counter,
                 version_counter, executables, st_pc, jb_vars, module_vars, script_vars,
                 corpus_vars>>

GetDicVersionCounter ==
  /\ st_pc = "ready"
  /\ st_ret' = Ret("get_dic_version_counter", None, "ok", get_dic_version_counter(avail_modules))
  /\ UNCHANGED <<software_dirs, files, executables_file, avail_modules, module_counter,
                 version_counter, executables, st_pc, jb_vars, module_vars, script_vars,
                 corpus_vars>>

\* the values the setter is given, by attribute
SetterValues(attr) ==
  IF attr = "avail_modules" THEN {EmptyAvail, SomeAvail}
  ELSE IF attr = "module_counter" THEN {<<>>, get_dic_module_counter(SomeAvail)}
  ELSE IF attr = "version_counter" THEN {<<>>, get_dic_version_counter(SomeAvail)}
  ELSE IF attr = "executables" THEN {<<>>, ExecFromFile, ExecWithBlank}
  ELSE {None}

\* setter(attr, val): hasattr, then setattr
setter(attr, val, cur) ==
  IF attr \in DOMAIN cur THEN [cur EXCEPT ![attr] = val] ELSE cur

Setter ==
  /\ st_pc = "ready"
  /\ \E attr \in {"avail_modules", "module_counter", "version_counter", "executables",
                  "no_such_attribute"} :
       \E val \in SetterValues(attr) :
         LET cur == [avail_modules |-> avail_modules, module_counter |-> module_counter,
                     version_counter |-> version_counter, executables |-> executables]
             new == setter(attr, val, cur)
         IN  /\ avail_modules' = new.avail_modules
             /\ module_counter' = new.module_counter
             /\ version_counter' = new.version_counter
             /\ executables' = new.executables
             /\ st_ret' = Ret("setter", attr, "ok", None)
  /\ UNCHANGED <<software_dirs, files, executables_file, st_pc, jb_vars,
                 module_vars, script_vars, corpus_vars>>

(***************************************************************************)
(* stats.py: the walks over the software tree                              *)
(***************************************************************************)
\* A software tree: per toolchain the module directories in the order glob lists
\* them; a module has a name and its version directories in listing order; a version
\* has a name, the files of those of bin and bin64 that exist right under it (sub),
\* and the file sets of the bin and bin64 directories further down (buried).

\* the substrings add_key_val rejects a file name for
dic_flags ==
  { <<".","d","a","t">>, <<".","t","x","t">>, <<".","s","o">>, <<".","c","o","n","f">>,
    <<".","c","o","n","f","i","g">>, <<".","c","m","d">> }

\* the substrings append_to_list rejects a file name for
list_flags ==
  dic_flags \cup { <<".","j","a","r">>, <<".","t","a","r">>, <<".","g","z">>,
                   <<".","b","a","t">> }

\* the module directories both walks pass over
exclude ==
  { <<"b","i","n">>, <<"a","c","c","o","u","n","t","i","n","g">>,
    <<"i","n","t","e","l","_","e","n","v">>, <<"f","o","s","s","_","e","n","v">> }

\* a variant of add_key_val that keeps the entry a key already has
add_key_val_keep_first(key, val, dic) ==
  IF \E flag \in dic_flags : Contains(flag, key) THEN dic
  ELSE dic @@ (key :> val)

\* add_key_val(key, val) on dic: dic[key] = val unless a flag is set
add_key_val(key, val, dic) ==
  IF \E flag \in dic_flags : Contains(flag, key) THEN dic
  ELSE (key :> val) @@ dic

\* for exec_file in exec_files: add_key_val(basename, val)
RECURSIVE add_exec_files(_, _, _)
add_exec_files(exec_files, val, dic) ==
  IF exec_files = {} THEN dic
  ELSE LET key == CHOOSE k \in exec_files : TRUE
       IN  add_exec_files(exec_files \ {key}, val, add_key_val(key, val, dic))

\* the files get_dic_executables takes from one version directory: those of bin if
\* it exists, else those of bin64 if it exists, else those of the buried ones
exec_files_of(vers) ==
  IF "bin" \in DOMAIN vers.sub THEN vers.sub["bin"]
  ELSE IF "bin64" \in DOMAIN vers.sub THEN vers.sub["bin64"]
  ELSE UNION vers.buried

\* for vers in module_vers, from the j-th on
RECURSIVE walk_versions(_, _, _)
walk_versions(mod, j, dic) ==
  IF j > Len(mod.versions) THEN dic
  ELSE walk_versions(mod, j + 1,
                     add_exec_files(exec_files_of(mod.versions[j]), mod.name, dic))

\* for mod in dirs, from the i-th on
RECURSIVE walk_modules(_, _, _)
walk_modules(dirs, i, dic) ==
  IF i > Len(dirs) THEN dic
  ELSE walk_modules(dirs, i + 1,
                    IF dirs[i].name \in exclude THEN dic
                    ELSE walk_versions(dirs[i], 1, dic))

\* for toolchain in self.avail_toolchain, from the t-th on: ValueError at a software
\* directory without modules
RECURSIVE walk_toolchains(_, _, _)
walk_toolchains(sw, t, dic) ==
  IF t > Len(avail_toolchain) THEN [dic |-> dic, err |-> "ok"]
  ELSE IF Len(sw[avail_toolchain[t]]) = 0 THEN [dic |-> None, err |-> "ValueError"]
  ELSE walk_toolchains(sw, t + 1, walk_modules(sw[avail_toolchain[t]], 1, dic))

\* get_dic_executables on self.executables = ex and the software tree sw
get_dic_executables(ex, sw) ==
  IF ex # <<>> THEN [dic |-> ex, err |-> "ok"]
  ELSE walk_toolchains(sw, 1, <<>>)

\* get_list_executables on an empty self.list_executables and the software tree sw:
\* for the first toolchain, ValueError at a software directory without modules, else
\* find_bindir_recursively(path), whose Popen(..., STDOUT=...) is a TypeError
get_list_executables(sw) ==
  IF Len(sw[avail_toolchain[1]]) = 0 THEN [val |-> None, err |-> "ValueError"]
  ELSE [val |-> None, err |-> "TypeError"]

\* file names
x_R == <<"R">>

x_Rscript == <<"R","s","c","r","i","p","t">>

x_Py == <<"P","y">>

x_mcc == <<"m","c","c">>

x_a_txt == <<"a",".","t","x","t">>

\* a version directory
Version(name, sub, buried) == [name |-> name, sub |-> sub, buried |-> buried]

\* module directories: R with a bin; Py with a bin and a bin64; MATLAB with a bin64
\* in one version and a buried bin in the other; accounting, which is excluded
dir_R ==
  [name |-> x_R,
   versions |-> << Version(<<"3",".","4">>, "bin" :> {x_R, x_Rscript}, {}) >>]

dir_Py ==
  [name |-> x_Py,
   versions |-> << Version(<<"2",".","7">>,
                           ("bin" :> {x_Py, x_a_txt}) @@ ("bin64" :> {x_R}), {}) >>]

dir_MATLAB ==
  [name |-> <<"M","A","T","L","A","B">>,
   versions |-> << Version(<<"1">>, "bin64" :> {x_mcc, x_Rscript}, {{x_R}}),
                   Version(<<"2">>, <<>>, {{x_mcc}, {x_Py}}) >>]

dir_accounting ==
  [name |-> <<"a","c","c","o","u","n","t","i","n","g">>,
   versions |-> << Version(<<"1">>, "bin" :> {x_R, x_mcc}, {}) >>]

ModuleDirs == {dir_R, dir_Py, dir_MATLAB, dir_accounting}

\* the software trees: up to MaxMods module directories for 2014, at most one for
\* 2015 and 2016, MATLAB or nothing for 2018
SoftwareTrees ==
  { sw \in [Toolchains -> SeqsOf(ModuleDirs, 0, MaxMods)] :
      /\ Len(sw[2015]) <= 1
      /\ sw[2016] \in {<<>>, <<dir_R>>}
      /\ sw[2018] \in {<<>>, <<dir_MATLAB>>} }

GetDicExecutables ==
  /\ st_pc = "ready"
  /\ LET r == get_dic_executables(executables, software_dirs)
     IN  st_ret' = Ret("get_dic_executables", None, r.err, r.dic)
  /\ UNCHANGED <<software_dirs, files, executables_file, avail_modules, module_counter,
                 version_counter, executables, st_pc, jb_vars, module_vars, script_vars,
                 corpus_vars>>

\* get_list_executables(): self.list_executables is empty, nothing ever fills it
GetListExecutables ==
  /\ st_pc = "ready"
  /\ LET r == get_list_executables(software_dirs)
     IN  st_ret' = Ret("get_list_executables", None, r.err, r.val)
  /\ UNCHANGED <<software_dirs, files, executables_file, avail_modules, module_counter,
                 version_counter, executables, st_pc, jb_vars, module_vars, script_vars,
                 corpus_vars>>

(***************************************************************************)
(* scripts.script                                                          *)
(***************************************************************************)
\* False, as get_xml_filename returns it
False == <<"False">>

s_SC == <<".","S","C">>

s_JB == <<".","J","B">>

\* get_xml_filename(file_sc): False for another extension, else every '.SC' replaced
get_xml_filename(path) ==
  IF Last(path, 3) # s_SC THEN False
  ELSE Replace(path, s_SC, s_JB)

\* the paths of the file system: scripts, their .JB files, a script whose name holds
\* '.SC' twice, and a script with another extension
p_j_SC == <<"j",".","S","C">>

p_j_JB == <<"j",".","J","B">>

p_a_SC_SC == <<"a",".","S","C",".","S","C">>

p_a_SC_JB == <<"a",".","S","C",".","J","B">>

p_a_JB_JB == <<"a",".","J","B",".","J","B">>

p_j_sh == <<"j",".","s","h">>

PathVocab == {p_j_SC, p_j_JB, p_a_SC_SC, p_a_SC_JB, p_a_JB_JB, p_j_sh}

\* the paths script() is called with
ArgVocab == {p_j_SC, p_a_SC_SC, p_j_sh}

\* the records of the .JB file: without and with a file_sc tag
ScriptRecords ==
  { <<>>,
    << Element("nodes", <<"1",":","p","p","n","=","4">>) >>,
    << Element("nodes", <<"1",":","1",":","1",":","1">>) >>,
    << Element("file_sc", p_j_sh) >> }

\* the lines of the .SC file
ScriptContents ==
  { <<>>, <<line_python361, line_ls>>, <<line_abc>> }

\* self.file_sc once JB.__init__ has run on the script object: file_sc is an instance
\* attribute by then and not excluded, so __allocate sets it from a file_sc tag
self_file_sc(r, arg) ==
  LET occ == {i \in 1..Len(r) : r[i].tag = "file_sc"}
  IN  IF occ = {} THEN arg
      ELSE r[CHOOSE i \in occ : \A j \in occ : j <= i].text

\* script.__init__: the two existence checks, then JB.__init__ is entered
ScriptInit ==
  /\ sc_pc = "new"
  /\ IF sc_arg \notin paths
     THEN /\ sc_pc' = "FileNotFoundError"
          /\ UNCHANGED <<sc_xml, jb_pc, corpus_vars>>
     ELSE /\ sc_xml' = get_xml_filename(sc_arg)
          /\ IF sc_xml' = False \/ sc_xml' \notin paths
             THEN /\ sc_pc' = "FileNotFoundError"
                  /\ UNCHANGED jb_pc
             ELSE /\ sc_pc' = "JB"
                  /\ jb_pc' = "new"
  /\ UNCHANGED <<root, attrs, ppn, paths, sc_arg, module_vars, stats_vars, corpus_vars>>

\* script.__init__: JB.__init__ raised
ScriptJBRaised ==
  /\ sc_pc = "JB"
  /\ jb_pc \notin {"new", "done"}
  /\ sc_pc' = jb_pc
  /\ UNCHANGED <<paths, sc_arg, sc_xml, jb_vars, module_vars, stats_vars, corpus_vars>>

\* script.__init__: JB.__init__ returned, module.__init__(self, self.file_sc) is entered
ScriptModule ==
  /\ sc_pc = "JB"
  /\ jb_pc = "done"
  /\ IF self_file_sc(root, sc_arg) \in paths
     THEN /\ sc_pc' = "module"
          /\ m_pc' = "new"
     ELSE /\ sc_pc' = "FileNotFoundError"
          /\ UNCHANGED m_pc
  /\ UNCHANGED <<file_sc, lines, toolchain, loaded, called, used, m_i, paths, sc_arg,
                 sc_xml, jb_vars, stats_vars, corpus_vars>>

\* script.__init__: module.__init__ returned or raised
ScriptEnd ==
  /\ sc_pc = "module"
  /\ m_pc \notin {"new", "find_toolchain", "find_module_use"}
  /\ sc_pc' = m_pc
  /\ UNCHANGED <<paths, sc_arg, sc_xml, jb_vars, module_vars, stats_vars, corpus_vars>>

(***************************************************************************)
(* run_module_stat.py: the loop of collect_module_use_stats                *)
(***************************************************************************)
\* what scripts.script(script_file) gives for a file: the exception it raises, or the
\* object's used dictionary
o_missing == [err |-> "FileNotFoundError", used |-> <<>>]

o_four_parts == [err |-> "IndexError", used |-> <<>>]

o_bad_ppn == [err |-> "ValueError", used |-> <<>>]

o_no_use == [err |-> "ok", used |-> <<>>]

o_R == [err |-> "ok", used |-> (x_R :> <<"3",".","4">>)]

o_called == [err |-> "ok", used |-> (x_Rscript :> None) @@ (x_mcc :> None) @@ (x_Py :> None)]

ScriptOutcomes == {o_missing, o_four_parts, o_bad_ppn, o_no_use, o_R, o_called}

\* the tallies before the loop
NoTallies == [n_all |-> 0, n_OK |-> 0, n_no_JB |-> 0, n_no_use |-> 0]

\* for key in scr.used.keys(): stat.increment_module_count(key), a KeyError passed over
RECURSIVE count_used(_, _, _)
count_used(keys, mc, ex) ==
  IF keys = {} THEN mc
  ELSE LET key == CHOOSE k \in keys : TRUE
       IN  count_used(keys \ {key}, increment_module_count(key, mc, ex).module_counter, ex)

\* a variant of the loop body without the try around script(script_file)
loop_body_uncaught(o, v, n, mc, ex) ==
  LET n1 == [n EXCEPT !.n_all = @ + 1]
  IN  IF o.err # "ok"
      THEN [n |-> n1, module_counter |-> mc, err |-> o.err]
      ELSE IF o.used = <<>>
      THEN [n |-> IF v = "run" THEN [n1 EXCEPT !.n_no_use = @ + 1] ELSE n1,
            module_counter |-> mc, err |-> "ok"]
      ELSE [n |-> [n1 EXCEPT !.n_OK = @ + 1],
            module_counter |-> count_used(DOMAIN o.used, mc, ex), err |-> "ok"]

\* one pass of the loop body for a file that gives o, in the script v, on the tallies
\* n and stat.module_counter = mc, stat.executables = ex (script never returns None)
loop_body(o, v, n, mc, ex) ==
  LET n1 == [n EXCEPT !.n_all = @ + 1]
  IN  IF o.err # "ok"
      THEN [n |-> IF v = "run" THEN [n1 EXCEPT !.n_no_JB = @ + 1] ELSE n1,
            module_counter |-> mc, err |-> "ok"]
      ELSE IF o.used = <<>>
      THEN [n |-> IF v = "run" THEN [n1 EXCEPT !.n_no_use = @ + 1] ELSE n1,
            module_counter |-> mc, err |-> "ok"]
      ELSE [n |-> [n1 EXCEPT !.n_OK = @ + 1],
            module_counter |-> count_used(DOMAIN o.used, mc, ex), err |-> "ok"]

\* the loop takes the next file
CorpusIteration ==
  /\ c_pc = "loop"
  /\ c_i <= Len(script_files)
  /\ LET n == [n_all |-> n_all, n_OK |-> n_OK, n_no_JB |-> n_no_JB, n_no_use |-> n_no_use]
         r == loop_body(script_files[c_i], variant, n, module_counter, executables)
     IN  /\ n_all' = r.n.n_all
         /\ n_OK' = r.n.n_OK
         /\ n_no_JB' = r.n.n_no_JB
         /\ n_no_use' = r.n.n_no_use
         /\ module_counter' = r.module_counter
         /\ c_pc' = IF r.err = "ok" THEN "loop" ELSE r.err
  /\ c_i' = c_i + 1
  /\ UNCHANGED <<variant, script_files, n_bad, software_dirs, files, executables_file,
                 avail_modules, version_counter, executables, st_ret, st_pc, jb_vars,
                 module_vars, script_vars>>

\* the files are used up: n_bad (in src/run_module_stat.py), the percentage, which
\* divides by n_all, then the ranking, which changes nothing of stat
CorpusEnd ==
  /\ c_pc = "loop"
  /\ c_i > Len(script_files)
  /\ n_bad' = IF variant = "src" THEN n_all - n_OK ELSE n_bad
  /\ c_pc' = IF n_all = 0 THEN "ZeroDivisionError" ELSE "done"
  /\ UNCHANGED <<variant, script_files, c_i, n_all, n_OK, n_no_JB, n_no_use, stats_vars,
                 jb_vars, module_vars, script_vars>>

(***************************************************************************)
(* Initial states                                                          *)
(***************************************************************************)
\* a JB about to be constructed
JBNew ==
  /\ attrs = [a \in XmlAttrs |-> None]
  /\ ppn = 1
  /\ jb_pc = "new"

\* no JB
JBIdle ==
  /\ root = <<>>
  /\ attrs = [a \in XmlAttrs |-> None]
  /\ ppn = 1
  /\ jb_pc = "idle"

\* a module about to be constructed: the defaults of __init__
ModuleNew ==
  /\ lines = None
  /\ toolchain = 2014
  /\ loaded = <<>>
  /\ called = <<>>
  /\ used = <<>>
  /\ m_i = 1
  /\ m_pc = "new"

\* no module
ModuleIdle ==
  /\ file_sc = <<>>
  /\ lines = None
  /\ toolchain = 2014
  /\ loaded = <<>>
  /\ called = <<>>
  /\ used = <<>>
  /\ m_i = 1
  /\ m_pc = "idle"

\* a stats object about to be constructed: the attributes __init__ sets first
StatsNew ==
  /\ executables_file = None
  /\ avail_modules = EmptyAvail
  /\ module_counter = <<>>
  /\ version_counter = <<>>
  /\ executables = <<>>
  /\ st_ret = Ret("none", None, "ok", None)
  /\ st_pc = "new"

\* no stats object
StatsIdle ==
  /\ software_dirs = [tc \in Toolchains |-> <<>>]
  /\ files = <<>>
  /\ executables_file = None
  /\ avail_modules = EmptyAvail
  /\ module_counter = <<>>
  /\ version_counter = <<>>
  /\ executables = <<>>
  /\ st_ret = Ret("none", None, "ok", None)
  /\ st_pc = "idle"

\* no script object
ScriptIdle ==
  /\ paths = {}
  /\ sc_arg = None
  /\ sc_xml = None
  /\ sc_pc = "idle"

\* the tallies of a loop about to start
CorpusNew ==
  /\ c_i = 1
  /\ n_all = NoTallies.n_all
  /\ n_OK = NoTallies.n_OK
  /\ n_no_JB = NoTallies.n_no_JB
  /\ n_no_use = NoTallies.n_no_use
  /\ n_bad = 0

\* no corpus run
CorpusIdle ==
  /\ variant = "run"
  /\ script_files = <<>>
  /\ CorpusNew
  /\ c_pc = "idle"

(***************************************************************************)
(* JB(file_xml) on a record that holds at most a nodes tag                 *)
(***************************************************************************)
InitJB ==
  /\ root \in NodeRecords
  /\ JBNew
  /\ ModuleIdle
  /\ StatsIdle
  /\ ScriptIdle
  /\ CorpusIdle

NextJB == JBInit

SpecJB == InitJB /\ [][NextJB]_vars

(***************************************************************************)
(* JB(file_xml) on a record of at most MaxElems elements                   *)
(***************************************************************************)
InitRecord ==
  /\ root \in Records
  /\ JBNew
  /\ ModuleIdle
  /\ StatsIdle
  /\ ScriptIdle
  /\ CorpusIdle

NextRecord == JBInit

SpecRecord == InitRecord /\ [][NextRecord]_vars

(***************************************************************************)
(* module(file_sc) on a script of at most MaxLines lines                   *)
(***************************************************************************)
InitModule ==
  /\ file_sc \in SeqsOf(LineVocab, 0, MaxLines)
  /\ ModuleNew
  /\ JBIdle
  /\ StatsIdle
  /\ ScriptIdle
  /\ CorpusIdle

NextModule ==
  \/ ReadScript
  \/ FindToolchain
  \/ AddModule
  \/ CheckCalls
  \/ SetUsed

SpecModule == InitModule /\ [][NextModule]_vars

(***************************************************************************)
(* One stats object and the calls made on it                               *)
(***************************************************************************)
InitStats ==
  /\ software_dirs \in {[tc \in Toolchains |-> <<>>],
                        [tc \in Toolchains |-> <<dir_R>>]}
  /\ files = (f_executables :> ExecLines) @@ (f_missing :> None)
  /\ StatsNew
  /\ JBIdle
  /\ ModuleIdle
  /\ ScriptIdle
  /\ CorpusIdle

NextStats ==
  \/ StatsInit
  \/ IncrementModuleCount
  \/ IncrementVersionCount
  \/ SortModuleCounts
  \/ WriteSortModuleCountsAsAscii
  \/ ReadAndSetDicExecutables
  \/ GetDicModuleCounter
  \/ GetDicVersionCounter
  \/ Setter

SpecStats == InitStats /\ [][NextStats]_vars

(***************************************************************************)
(* One stats object, its executable map and the files it is kept in        *)
(***************************************************************************)
InitFiles ==
  /\ software_dirs = [tc \in Toolchains |-> <<>>]
  /\ files = (f_executables :> ExecLines) @@ (f_missing :> None)
  /\ StatsNew
  /\ JBIdle
  /\ ModuleIdle
  /\ ScriptIdle
  /\ CorpusIdle

NextFiles ==
  \/ StatsInit
  \/ Setter
  \/ ReadAndSetDicExecutables
  \/ WriteDicExecutables
  \/ ReadDicExecutables

SpecFiles == InitFiles /\ [][NextFiles]_vars

(***************************************************************************)
(* One stats object and the walks over a software tree                     *)
(***************************************************************************)
InitWalk ==
  /\ software_dirs \in SoftwareTrees
  /\ files = (f_executables :> ExecLines) @@ (f_missing :> None)
  /\ StatsNew
  /\ JBIdle
  /\ ModuleIdle
  /\ ScriptIdle
  /\ CorpusIdle

NextWalk ==
  \/ StatsInit
  \/ ReadAndSetDicExecutables
  \/ GetDicExecutables
  \/ GetListExecutables

SpecWalk == InitWalk /\ [][NextWalk]_vars

(***************************************************************************)
(* script(file_sc) on a file system with some of the paths                 *)
(***************************************************************************)
InitScript ==
  /\ paths \in SUBSET PathVocab
  /\ sc_arg \in ArgVocab
  /\ sc_xml = None
  /\ sc_pc = "new"
  /\ root \in ScriptRecords
  /\ attrs = [a \in XmlAttrs |-> None]
  /\ ppn = 1
  /\ jb_pc = "idle"
  /\ file_sc \in ScriptContents
  /\ lines = None
  /\ toolchain = 2014
  /\ loaded = <<>>
  /\ called = <<>>
  /\ used = <<>>
  /\ m_i = 1
  /\ m_pc = "idle"
  /\ StatsIdle
  /\ CorpusIdle

NextScript ==
  \/ ScriptInit
  \/ JBInit
  \/ ScriptJBRaised
  \/ ScriptModule
  \/ ReadScript
  \/ FindToolchain
  \/ AddModule
  \/ CheckCalls
  \/ SetUsed
  \/ ScriptEnd

SpecScript == InitScript /\ [][NextScript]_vars

(***************************************************************************)
(* The loop of collect_module_use_stats, from its entry, on a stats object *)
(* as construction with auto=False and the setter leave one                *)
(***************************************************************************)
InitCorpus ==
  /\ variant \in {"run", "src"}
  /\ script_files \in SeqsOf(ScriptOutcomes, 0, MaxScripts)
  /\ CorpusNew
  /\ c_pc = "loop"
  /\ software_dirs = [tc \in Toolchains |-> <<>>]
  /\ files = (f_executables :> ExecLines) @@ (f_missing :> None)
  /\ executables_file = f_executables
  /\ avail_modules \in {EmptyAvail, SomeAvail}
  /\ module_counter = get_dic_module_counter(avail_modules)
  /\ version_counter = get_dic_version_counter(avail_modules)
  /\ executables \in {<<>>, ExecFromFile}
  /\ st_ret = Ret("none", None, "ok", None)
  /\ st_pc = "ready"
  /\ JBIdle
  /\ ModuleIdle
  /\ ScriptIdle

NextCorpus ==
  \/ CorpusIteration
  \/ CorpusEnd

SpecCorpus == InitCorpus /\ [][NextCorpus]_vars

\* the function runs on: a step that can be taken is taken
FairCorpus == SpecCorpus /\ WF_vars(NextCorpus)

(***************************************************************************)
(* Properties of the node-spec decoding (SpecJB)                           *)
(***************************************************************************)
\* the colon-separated parts of the record's nodes text
NodeParts == Split(root[1].text, ":")

\* the permutations of 1..n
Perms(n) == {f \in [1..n -> 1..n] : \A i, j \in 1..n : i # j => f[i] # f[j]}

\* what constructing a JB from a record with this nodes text ends with
Decoded(nodes) ==
  LET r == set_ppn(allocate(<<Element("nodes", nodes)>>), 1)
  IN  IF r.err = "ok" THEN <<"done", r.ppn, r.machine>> ELSE <<r.err>>

\* what the construction of this JB ended with
Constructed == IF jb_pc = "done" THEN <<"done", ppn, attrs["machine"]>> ELSE <<jb_pc>>

\* every permutation of the parts decodes to what this JB ended with
SameForEveryPermutation ==
  \A f \in Perms(Len(NodeParts)) :
    Decoded(Join([i \in 1..Len(NodeParts) |-> NodeParts[f[i]]], ":")) = Constructed

\* C1 as stated: for every nodes text of 2 or 3 parts, every permutation of the parts
\* decodes to the same (ppn, machine)
C1_AnyPartsOrderIndependent ==
  (jb_pc \notin {"new", "idle"} /\ root # <<>> /\ Len(NodeParts) \in {2, 3})
    => SameForEveryPermutation

\* C1, amended: for every nodes text of 2 or 3 parts of which at most one distinct part
\* contains 'ppn' and at most one of the two hardware tags occurs, every permutation
\* of the parts decodes to the same outcome: the same (ppn, machine), or the same error
C1_OrderIndependent ==
  (/\ jb_pc \notin {"new", "idle"}
   /\ root # <<>>
   /\ Len(NodeParts) \in {2, 3}
   /\ Cardinality({NodeParts[i] : i \in {j \in 1..Len(NodeParts) :
                                           Contains(s_ppn, NodeParts[j])}}) <= 1
   /\ Cardinality({NodeParts[i] : i \in 1..Len(NodeParts)}
                    \cap {s_haswell, s_ivybrdige}) <= 1)
    => SameForEveryPermutation

\* a JB decoded from three parts that come hardware tag first, core count last
C1_Witness ==
  /\ jb_pc = "done"
  /\ root # <<>>
  /\ Len(NodeParts) = 3
  /\ NodeParts[1] = s_ivybrdige
  /\ NodeParts[3] = <<"p","p","n","=","8">>
  /\ ppn = 8
  /\ attrs["machine"] = s_ivybridge

(***************************************************************************)
(* Properties of the script analysis (SpecModule)                          *)
(***************************************************************************)
w_monitor == <<"m","o","n","i","t","o","r">>

w_runtime_log == <<"r","u","n","t","i","m","e",".","l","o","g">>

w_matlab == <<"m","a","t","l","a","b">>

w_Python == <<"P","y","t","h","o","n">>

w_export == <<"e","x","p","o","r","t">>

\* the retained lines that hold one of the two toolchain phrases
SwitchLines ==
  {i \in 1..Len(lines) :
     Contains(s_switch_to, lines[i]) \/ Contains(s_module_use_slash, lines[i])}

\* the year such a line names: the 5th '/'-segment less its last character for the
\* 'module use' phrase, the characters 17..20 for the 'switch to' phrase
YearOfLine(line) ==
  IF Contains(s_module_use_slash, line) THEN Int10(DropLast(Split(line, "/")[5]))
  ELSE Int10(Slice(line, 17, 21))

LastOf(S) == CHOOSE i \in S : \A j \in S : j <= i

\* C2: when some retained line holds one of the two phrases, the toolchain after
\* construction is the year of the last such line
C2_LastSwitchLineSetsToolchain ==
  (m_pc = "done" /\ SwitchLines # {})
    => toolchain = YearOfLine(lines[LastOf(SwitchLines)])

\* C3: after the scan, used is the union of loaded and called, and a key of both
\* has its loaded value
C3_UsedPrefersLoaded ==
  m_pc = "done"
    => /\ DOMAIN used = DOMAIN loaded \cup DOMAIN called
       /\ \A k \in DOMAIN loaded \cap DOMAIN called : used[k] = loaded[k]

\* C4: scanning the monitor line alone leaves exactly monitor, runtime.log and matlab
\* as the keys of called
C4_MonitorLineCandidates ==
  (m_pc = "done" /\ lines = <<Strip(line_monitor)>>)
    => DOMAIN called = {w_monitor, w_runtime_log, w_matlab}

\* the lines of the script that start with 'module load'
LoadLines == {i \in 1..Len(lines) : StartsWith(lines[i], s_module_load)}

\* what follows the phrase on such a line
LoadArg(i) == Strip(From(lines[i], Len(s_module_load)))

\* the module name of such a line: up to the first '/'
LoadName(i) ==
  LET a == LoadArg(i)
      s == Find(a, "/", 1)
  IN  IF s = 0 THEN a ELSE SubSeq(a, 1, s - 1)

\* the version of such a line: after the first '/', None without one
LoadVersion(i) ==
  LET a == LoadArg(i)
      s == Find(a, "/", 1)
  IN  IF s = 0 THEN None ELSE SubSeq(a, s + 1, Len(a))

\* C5: after a scan that ran to its end, loaded maps each module name of a
\* 'module load' line to the version of the last such line for that name
C5_LastLoadWins ==
  m_pc = "done"
    => /\ DOMAIN loaded = {LoadName(i) : i \in LoadLines}
       /\ \A k \in DOMAIN loaded :
            loaded[k] = LoadVersion(LastOf({i \in LoadLines : LoadName(i) = k}))

\* the script of the spec's example, scanned: Python ends at 2.7
C5_Witness ==
  /\ m_pc = "done"
  /\ lines = <<Strip(line_python361), Strip(line_python27)>>
  /\ loaded = (w_Python :> <<"2",".","7">>)

\* the whitespace-delimited tokens of a line
Tokens(line) == SplitWS(line)

\* the tokens of a line that do not start with - $ ; * " and hold no '='
Survivors(line) ==
  {Tokens(line)[i] : i \in {j \in 1..Len(Tokens(line)) :
      /\ Tokens(line)[j][1] \notin {"-", "$", ";", "*", "\""}
      /\ \A n \in 1..Len(Tokens(line)[j]) : Tokens(line)[j][n] # "="}}

IsIncrement(which) ==
  /\ st_ret'.op = "increment_module_count"
  /\ st_ret'.arg = which

\* the step leaves every counter of mc but those of the keys in S as it was
SameBut(S) ==
  /\ DOMAIN module_counter' = DOMAIN module_counter
  /\ \A k \in DOMAIN module_counter \ S : module_counter'[k] = module_counter[k]

\* C7: increment_module_count of a key of module_counter raises nothing, adds 1 to
\* that counter and changes no other counter, no key, and neither version_counter nor
\* the executable map
C7_IncrementOfModule ==
  [][\A which \in Names :
       (IsIncrement(which) /\ which \in DOMAIN module_counter)
         => /\ st_ret'.err = "ok"
            /\ SameBut({which})
            /\ module_counter'[which] = module_counter[which] + 1
            /\ version_counter' = version_counter
            /\ executables' = executables]_vars

\* Py, a counter key and an executable of R in the map, was incremented: its own
\* counter moved, R's did not
C7_Witness ==
  /\ st_ret.op = "increment_module_count"
  /\ st_ret.arg = <<"P","y">>
  /\ <<"P","y">> \in DOMAIN executables
  /\ <<"P","y">> \in DOMAIN module_counter
  /\ module_counter[<<"P","y">>] = 1
  /\ module_counter[<<"R">>] = 0

\* C8: increment_module_count of a name that is neither a counter key nor an
\* executable raises nothing and leaves module_counter as it was
C8_IncrementOfUnknown ==
  [][\A which \in Names :
       (/\ IsIncrement(which)
        /\ which \notin DOMAIN module_counter
        /\ which \notin DOMAIN executables)
         => /\ st_ret'.err = "ok"
            /\ module_counter' = module_counter]_vars

\* ls was passed to seeded counters and a loaded executable map
C8_Witness ==
  /\ st_ret.op = "increment_module_count"
  /\ st_ret.arg = <<"l","s">>
  /\ st_ret.err = "ok"
  /\ executables # <<>>
  /\ <<"R">> \in DOMAIN module_counter
  /\ module_counter[<<"R">>] = 1

\* C9 as stated: increment_module_count of an executable that is no counter key never
\* raises and adds 1 to the counter of its module; a name that is both is counted
\* under its own name
C9_IncrementOfExecutableNeverRaises ==
  [][\A which \in Names :
       (IsIncrement(which) /\ which \in DOMAIN executables)
         => IF which \in DOMAIN module_counter
            THEN /\ SameBut({which})
                 /\ module_counter'[which] = module_counter[which] + 1
            ELSE /\ st_ret'.err = "ok"
                 /\ SameBut({executables[which]})
                 /\ module_counter'[executables[which]]
                      = module_counter[executables[which]] + 1]_vars

\* C9, amended: increment_module_count of an executable that is no counter key adds 1
\* to the counter of its module and changes no other counter when that module is a
\* counter key, and raises KeyError with every counter unchanged when it is not; a name
\* that is both a counter key and an executable is counted under its own name
C9_IncrementOfExecutable ==
  [][\A which \in Names :
       (IsIncrement(which) /\ which \in DOMAIN executables)
         => IF which \in DOMAIN module_counter
            THEN /\ st_ret'.err = "ok"
                 /\ SameBut({which})
                 /\ module_counter'[which] = module_counter[which] + 1
            ELSE IF executables[which] \in DOMAIN module_counter
            THEN /\ st_ret'.err = "ok"
                 /\ SameBut({executables[which]})
                 /\ module_counter'[executables[which]]
                      = module_counter[executables[which]] + 1
            ELSE /\ st_ret'.err = "KeyError"
                 /\ module_counter' = module_counter]_vars

\* Rscript, an executable of R and no counter key, was counted for R
C9_Witness ==
  /\ st_ret.op = "increment_module_count"
  /\ st_ret.arg = <<"R","s","c","r","i","p","t">>
  /\ st_ret.err = "ok"
  /\ <<"R","s","c","r","i","p","t">> \in DOMAIN executables
  /\ <<"R">> \in DOMAIN module_counter
  /\ module_counter[<<"R">>] = 1
  /\ module_counter[<<"P","y">>] = 0

\* no key of the counter c is missing from d, and none has a smaller value there
Grown(c, d) == \A k \in DOMAIN c : k \in DOMAIN d /\ d[k] >= c[k]

\* the step keeps every key and lowers no value of either counter, and changes a
\* counter only if it is one of the two increment operations
CountersOnlyGrow ==
  /\ Grown(module_counter, module_counter')
  /\ Grown(version_counter, version_counter')
  /\ (module_counter' # module_counter \/ version_counter' # version_counter)
       => st_ret'.op \in {"increment_module_count", "increment_version_count"}

\* C10 as stated: no public operation, the setter included, removes a key of a
\* counter, lowers a value or resets a counter, and only the increments change them
C10_CountersNeverReset == [][CountersOnlyGrow]_vars

\* the step is setter('module_counter', val) or setter('version_counter', val)
IsCounterSetter ==
  /\ st_ret'.op = "setter"
  /\ st_ret'.arg \in {"module_counter", "version_counter"}

\* C10, amended: every public operation but setter on 'module_counter' or
\* 'version_counter' keeps every key and lowers no value of the two counters, and of
\* those only the increments change them; that setter call replaces the counter by
\* the value it is given
C10_CountersOnlyGrowButSetter == [][~IsCounterSetter => CountersOnlyGrow]_vars

\* counters that were incremented, then ranked and re-read from the executables file
C10_Witness ==
  /\ st_ret.op = "read_and_set_dic_executables"
  /\ <<"R">> \in DOMAIN module_counter
  /\ module_counter[<<"R">>] = 2
  /\ <<"2","0","1","4","/","P","y">> \in DOMAIN version_counter
  /\ version_counter[<<"2","0","1","4","/","P","y">>] = 1

(***************************************************************************)
(* Properties of the ranking (SpecStats)                                   *)
(***************************************************************************)
\* the smaller of two numbers
Min(a, b) == IF a < b THEN a ELSE b

\* the step is sort_module_counts(showtop) with showtop a positive integer
IsSortOfPositive ==
  /\ st_ret'.op = "sort_module_counts"
  /\ st_ret'.arg.is_int
  /\ st_ret'.arg.v >= 1

\* C11: sort_module_counts(n) with n a positive integer returns min(n, number of keys)
\* different module names, each paired with its count, the counts never increasing,
\* and no module left out has a larger count than a returned one; with n above the
\* number of keys every key is returned
C11_SortReturnsTheTop ==
  [][IsSortOfPositive =>
       LET keys == st_ret'.val.keys
           vals == st_ret'.val.vals
           n    == Min(st_ret'.arg.v, Cardinality(DOMAIN module_counter))
           returned == {keys[i] : i \in 1..Len(keys)}
       IN  /\ st_ret'.err = "ok"
           /\ Len(keys) = n
           /\ Len(vals) = n
           /\ Cardinality(returned) = n
           /\ returned \subseteq DOMAIN module_counter
           /\ \A i \in 1..n : vals[i] = module_counter[keys[i]]
           /\ \A i, j \in 1..n : i < j => vals[i] >= vals[j]
           /\ \A k \in DOMAIN module_counter \ returned :
                \A i \in 1..n : vals[i] >= module_counter[k]
           /\ (st_ret'.arg.v >= Cardinality(DOMAIN module_counter)
                 => returned = DOMAIN module_counter)
           /\ module_counter' = module_counter]_vars

\* the top 1 of two counters: Py, counted twice, is returned and R, counted once, is not
C11_Witness ==
  /\ st_ret.op = "sort_module_counts"
  /\ st_ret.err = "ok"
  /\ st_ret.arg.v = 1
  /\ DOMAIN module_counter = {<<"R">>, <<"P","y">>}
  /\ module_counter[<<"R">>] = 1
  /\ module_counter[<<"P","y">>] = 2
  /\ st_ret.val.keys = << <<"P","y">> >>

\* C12: sort_module_counts(showtop) with showtop no integer, or an integer below 1,
\* raises ValueError, returns nothing in place of it and leaves module_counter as it was
C12_SortRejectsBadShowtop ==
  [][(/\ st_ret'.op = "sort_module_counts"
      /\ (~st_ret'.arg.is_int \/ st_ret'.arg.v < 1))
       => /\ st_ret'.err = "ValueError"
          /\ st_ret'.val = None
          /\ module_counter' = module_counter]_vars

\* sort_module_counts(0) was refused on counters that have keys
C12_Witness ==
  /\ st_ret.op = "sort_module_counts"
  /\ st_ret.arg.is_int
  /\ st_ret.arg.v = 0
  /\ st_ret.err = "ValueError"
  /\ DOMAIN module_counter = {<<"R">>, <<"P","y">>}
  /\ module_counter[<<"R">>] = 1

(***************************************************************************)
(* Properties of the executable map and its file (SpecFiles)               *)
(***************************************************************************)
\* C13: a read_and_set_dic_executables that follows one of the same file leaves the
\* executable map as the first call left it, and a read_and_set_dic_executables of any
\* file on a map that has keys leaves the map as it was
C13_ReadAndSetOnce ==
  [][st_ret'.op = "read_and_set_dic_executables" =>
       /\ (st_ret.op = "read_and_set_dic_executables" /\ st_ret.arg = st_ret'.arg)
            => executables' = executables
       /\ executables # <<>> => (executables' = executables /\ st_ret'.err = "ok")]_vars

\* a map given by the setter, which differs from the file, was kept by the call
C13_Witness ==
  /\ st_ret.op = "read_and_set_dic_executables"
  /\ st_ret.arg = f_executables
  /\ st_ret.err = "ok"
  /\ files[f_executables] = ExecLines
  /\ executables = ExecWithBlank

\* C14: read_dic_executables(f) right after write_dic_executables(f) of a map that
\* has keys returns that map: the same keys, each with the same module
C14_WriteThenReadGivesTheMap ==
  [][(/\ st_ret.op = "write_dic_executables"
      /\ st_ret.err = "ok"
      /\ st_ret'.op = "read_dic_executables"
      /\ st_ret'.arg = st_ret.arg
      /\ executables # <<>>)
       => /\ st_ret'.err = "ok"
          /\ st_ret'.val = executables]_vars

(***************************************************************************)
(* Properties of the attributes read from a record (SpecRecord)            *)
(***************************************************************************)
\* the positions of the tag in the record
Occurrences(tag) == {i \in 1..Len(root) : root[i].tag = tag}

\* the text of the last element with this tag
LastText(tag) ==
  root[CHOOSE i \in Occurrences(tag) : \A j \in Occurrences(tag) : j <= i].text

IsNodes(e) == e.tag = "nodes"

\* C16: what the construction ends with (ppn and machine, or the exception) is what it
\* ends with for the record stripped of every element but the nodes elements
C16_DerivedFromNodesOnly ==
  jb_pc \notin {"new", "idle"} =>
    LET r == set_ppn(allocate(SelectSeq(root, IsNodes)), 1)
    IN  Constructed = IF r.err = "ok" THEN <<"done", r.ppn, r.machine>> ELSE <<r.err>>

\* C17: the construction ends with IndexError exactly when the nodes text has more
\* than 3 parts
C17_IndexErrorAboveThreeParts ==
  (jb_pc \notin {"new", "idle"} /\ root # <<>>)
    => (jb_pc = "IndexError" <=> Len(NodeParts) > 3)

\* four parts were refused, one of them a core count that is no number
C17_Witness ==
  /\ jb_pc = "IndexError"
  /\ root # <<>>
  /\ NodeParts = << <<"1">>, <<"p","p","n","=","x">>, s_haswell, <<"1">> >>

\* C18: a record without a nodes text, or with one that holds no ':', is constructed
\* without an exception and ends with ppn = 1 and no machine
C18_NoSeparatorGivesDefaults ==
  (/\ jb_pc \notin {"new", "idle"}
   /\ (attrs["nodes"] = None \/ ~Contains(<<":">>, attrs["nodes"])))
    => /\ jb_pc = "done"
       /\ ppn = 1
       /\ attrs["machine"] = None

(***************************************************************************)
(* Properties of the script constructor (SpecScript)                       *)
(***************************************************************************)
\* the path ends in '.SC'
EndsInSC(path) == Len(path) >= 3 /\ SubSeq(path, Len(path) - 2, Len(path)) = s_SC

\* the path with its last two characters exchanged for 'JB'
Companion(path) == SubSeq(path, 1, Len(path) - 2) \o <<"J","B">>

\* neither parser has run: no attribute was read from a record, no script line read
NothingParsed ==
  /\ jb_pc = "idle"
  /\ attrs = [a \in XmlAttrs |-> None]
  /\ m_pc = "idle"
  /\ lines = None

\* C19: script(file_sc) ends with FileNotFoundError, and with nothing parsed, when
\* the script file does not exist, when its name does not end in '.SC', and when the
\* .JB file named like the script does not exist
C19_MissingFileRaisesBeforeParsing ==
  (/\ sc_pc \notin {"idle", "new"}
   /\ (\/ sc_arg \notin paths
       \/ ~EndsInSC(sc_arg)
       \/ Companion(sc_arg) \notin paths))
    => /\ sc_pc = "FileNotFoundError"
       /\ NothingParsed

\* C20: for a script path that ends in '.SC', get_xml_filename returns the path with
\* that ending exchanged for '.JB' and every other character as it was
C20_OnlyTheExtensionChanges ==
  (/\ sc_pc \notin {"idle", "new"}
   /\ sc_arg \in paths
   /\ EndsInSC(sc_arg))
    => sc_xml = Companion(sc_arg)

(***************************************************************************)
(* More properties of the module scan (SpecModule)                         *)
(***************************************************************************)
\* C25: the scan of a line that starts with 'module load' raises nothing and records
\* the text before the first '/' as the name, with the text after it (further '/'
\* included) as the version, or None without a '/'
C25_AddModuleNeverRaises ==
  [][(/\ m_pc = "find_module_use"
      /\ m_i <= Len(lines)
      /\ m_i' = m_i + 1
      /\ StartsWith(lines[m_i], s_module_load))
       => /\ m_pc' = "find_module_use"
          /\ loaded' = (LoadName(m_i) :> LoadVersion(m_i)) @@ loaded]_vars

(***************************************************************************)
(* More properties of the node-spec decoding (SpecJB)                      *)
(***************************************************************************)
\* the part is a hardware tag or starts with 'ppn'
IsTagOrPpn(p) == p \in {s_haswell, s_ivybrdige} \/ StartsWith(p, s_ppn)

\* C26: a nodes text of 2 or 3 parts decodes to what its hardware tags and its parts
\* that start with 'ppn' decode to: every other part changes neither ppn nor machine
\* and raises nothing
C26_OtherPartsIgnored ==
  (/\ jb_pc \notin {"new", "idle"}
   /\ root # <<>>
   /\ Len(NodeParts) \in {2, 3})
    => LET r == get_ppn_and_machine(SelectSeq(NodeParts, IsTagOrPpn))
       IN  Constructed = IF r.err = "ok" THEN <<"done", r.ppn, r.machine>> ELSE <<r.err>>

(***************************************************************************)
(* More properties of the counters (SpecStats)                             *)
(***************************************************************************)
\* 'toolchain/module/version', or 'toolchain/module' when the version is None
QualifiedKey(tc, module, version) ==
  Str(tc) \o <<"/">> \o module \o (IF version = None THEN <<>> ELSE <<"/">> \o version)

\* C28: increment_version_count(toolchain, module, version) whose qualified key is a key
\* of version_counter raises nothing and adds exactly 1 to that key, every other
\* version counter and module_counter unchanged; with a key that is not in
\* version_counter the call changes nothing
C28_IncrementOfVersion ==
  [][st_ret'.op = "increment_version_count" =>
       LET key == QualifiedKey(st_ret'.arg[1], st_ret'.arg[2], st_ret'.arg[3])
       IN  /\ module_counter' = module_counter
           /\ IF key \in DOMAIN version_counter
              THEN /\ st_ret'.err = "ok"
                   /\ version_counter' = [version_counter EXCEPT ![key] = @ + 1]
              ELSE version_counter' = version_counter]_vars

\* the sum of the values of a counter
RECURSIVE SumOf(_)
SumOf(c) ==
  IF DOMAIN c = {} THEN 0
  ELSE LET k == CHOOSE x \in DOMAIN c : TRUE
       IN  c[k] + SumOf([x \in DOMAIN c \ {k} |-> c[x]])

\* C29: each increment_module_count call adds 1 to the sum of the module counters when
\* it returns normally with a name that is a counter key or an executable, and adds
\* nothing when the name is unresolved or the call raises; the keys stay as they were
C29_SumCountsResolvedCalls ==
  [][st_ret'.op = "increment_module_count" =>
       /\ DOMAIN module_counter' = DOMAIN module_counter
       /\ SumOf(module_counter') =
            SumOf(module_counter)
              + (IF /\ st_ret'.err = "ok"
                    /\ (\/ st_ret'.arg \in DOMAIN module_counter
                        \/ st_ret'.arg \in DOMAIN executables)
                 THEN 1 ELSE 0)]_vars

\* three counted calls on seeded counters, the last one for the executable mcc, whose
\* module MATLAB has no counter: it raised and the sum stayed at 3
C29_Witness ==
  /\ st_ret.op = "increment_module_count"
  /\ st_ret.arg = <<"m","c","c">>
  /\ st_ret.err = "KeyError"
  /\ DOMAIN module_counter = {<<"R">>, <<"P","y">>}
  /\ SumOf(module_counter) = 3

(***************************************************************************)
(* C27: sort_module_counts and equal counts                                *)
(***************************************************************************)
\* the place of key k in the insertion order of the counter seeded from SomeAvail
\* (the one non-empty counter of these runs; counting never reorders a dict)
InsertedAt(k) ==
  LET keys == module_counter_keys(SomeAvail, 1, 1, <<>>)
  IN  CHOOSE j \in 1..Len(keys) : keys[j] = k

\* the place of key k in a returned list of keys, 0 when it is not returned
ListedAt(ks, k) == IF \E j \in 1..Len(ks) : ks[j] = k
                   THEN CHOOSE j \in 1..Len(ks) : ks[j] = k ELSE 0

\* C27: in the result of sort_module_counts, of two modules with the same count the
\* one inserted into module_counter first is listed first, and when the cut-off
\* falls between the two it is the one returned
C27_TiesInInsertionOrder ==
  [][(st_ret'.op = "sort_module_counts" /\ st_ret'.err = "ok") =>
       \A a, b \in DOMAIN module_counter :
         (module_counter[a] = module_counter[b] /\ InsertedAt(a) < InsertedAt(b)
            /\ ListedAt(st_ret'.val.keys, b) > 0)
         => /\ ListedAt(st_ret'.val.keys, a) > 0
            /\ ListedAt(st_ret'.val.keys, a) < ListedAt(st_ret'.val.keys, b)]_vars

(***************************************************************************)
(* C24: the counters after construction with auto                          *)
(***************************************************************************)
\* the step just taken is stats(cluster, exec_file, auto=True) with a cluster that
\* check_cluster accepts
BuiltWithAuto ==
  /\ st_ret.op = "__init__"
  /\ st_ret.arg.auto
  /\ st_ret.arg.cluster \in ValidClusters

\* C24: right after a stats object is constructed with auto enabled, the object is
\* there, module_counter has exactly the bare names of the entries of avail_modules
\* as keys and version_counter exactly their 'epoch/entry' keys, every value 0
C24_SeededByConstruction ==
  BuiltWithAuto
    => /\ st_pc = "ready"
       /\ module_counter = get_dic_module_counter(avail_modules)
       /\ version_counter = get_dic_version_counter(avail_modules)

(***************************************************************************)
(* C21, C22: the walks over the software tree (SpecWalk)                   *)
(***************************************************************************)
\* the finds of the walk of get_dic_executables in the tree sw: file key, accepted by
\* add_key_val, in a version of the i-th module directory (not an excluded one) of
\* the t-th toolchain
Found(sw) ==
  { f \in [t : 1..Len(avail_toolchain), i : 1..MaxMods + 1,
           key : {x_R, x_Rscript, x_Py, x_mcc, x_a_txt}] :
      /\ f.i <= Len(sw[avail_toolchain[f.t]])
      /\ LET mod == sw[avail_toolchain[f.t]][f.i]
         IN  /\ mod.name \notin exclude
             /\ \E j \in 1..Len(mod.versions) : f.key \in exec_files_of(mod.versions[j])
      /\ \A flag \in dic_flags : ~Contains(flag, f.key) }

\* find f comes before find g: toolchain order, then directory listing order
Before(f, g) == f.t < g.t \/ (f.t = g.t /\ f.i < g.i)

\* the module name of the find f
ModuleOf(sw, f) == sw[avail_toolchain[f.t]][f.i].name

\* C21: the map get_dic_executables builds by the walk has the accepted file names
\* found as keys, and the entry of a name is the module of its last find in walk
\* order (toolchain order, then directory listing order)
C21_LastDiscoveredWins ==
  [][(st_ret'.op = "get_dic_executables" /\ st_ret'.err = "ok" /\ executables = <<>>) =>
       LET found == Found(software_dirs)
           dic   == st_ret'.val
       IN  /\ DOMAIN dic = {f.key : f \in found}
           /\ \A f \in found :
                (\A g \in found : g.key = f.key => ~Before(f, g))
                  => dic[f.key] = ModuleOf(software_dirs, f)]_vars

\* the walk has ended on a tree where Rscript is found under R and under MATLAB last,
\* and Py under Py in 2015 and under MATLAB in 2018
C21_Witness ==
  /\ st_ret.op = "get_dic_executables"
  /\ st_ret.err = "ok"
  /\ executables = <<>>
  /\ software_dirs[2014] = <<dir_MATLAB, dir_R>>
  /\ software_dirs[2015] = <<dir_Py>>
  /\ st_ret.val[x_Rscript] = dir_MATLAB.name
  /\ st_ret.val[x_Py] = dir_MATLAB.name
  /\ st_ret.val[x_R] = x_R
  /\ \E f, g \in Found(software_dirs) :
       /\ f.key = x_Rscript /\ g.key = x_Rscript /\ Before(f, g)
       /\ ModuleOf(software_dirs, f) = x_R
       /\ ModuleOf(software_dirs, g) = dir_MATLAB.name

\* the files of the bin and bin64 directories of a version, at any depth
BinFiles(vers) == UNION {vers.sub[d] : d \in DOMAIN vers.sub} \cup UNION vers.buried

\* the (epoch, module, version, executable) tuples of the tree sw: every file that
\* append_to_list accepts, of every version of every module directory that is not
\* excluded, of every toolchain
AllTuples(sw) ==
  UNION { UNION { UNION { { <<tc, sw[tc][i].name, sw[tc][i].versions[j].name, ex>> :
                            ex \in { x \in BinFiles(sw[tc][i].versions[j]) :
                                       \A flag \in list_flags : ~Contains(flag, x) } } :
                          j \in 1..Len(sw[tc][i].versions) } :
                  i \in {k \in 1..Len(sw[tc]) : sw[tc][k].name \notin exclude} } :
          tc \in Toolchains }

\* C22: get_list_executables on an empty index returns a list that holds a tuple for
\* every accepted executable of every version of every module that is not excluded,
\* of every toolchain, no module or version left out
C22_ListHoldsEveryTuple ==
  [][st_ret'.op = "get_list_executables" =>
       /\ st_ret'.err = "ok"
       /\ {st_ret'.val[n] : n \in 1..Len(st_ret'.val)} = AllTuples(software_dirs)]_vars

Raising == {i \in 1..Len(script_files) : script_files[i].err # "ok"}

UsingNothing ==
  {i \in 1..Len(script_files) : script_files[i].err = "ok" /\ script_files[i].used = <<>>}

UsingSome ==
  {i \in 1..Len(script_files) : script_files[i].err = "ok" /\ script_files[i].used # <<>>}

\* the loop is over, every file was taken once, and each is in exactly one tally
LoopDone ==
  /\ c_pc \in {"done", "ZeroDivisionError"}
  /\ c_i = Len(script_files) + 1
  /\ n_all = Len(script_files)
  /\ n_OK = Cardinality(UsingSome)
  /\ variant = "run" => /\ n_no_JB = Cardinality(Raising)
                        /\ n_no_use = Cardinality(UsingNothing)
                        /\ n_all = n_OK + n_no_JB + n_no_use
  /\ variant = "src" => n_bad = n_all - n_OK

\* C23: once the loop has started it takes the files one after the other, n_all
\* counting them, no exception of script(file) ends it, and it comes to its end with
\* every file visited once and counted in exactly one tally
C23_LoopVisitsAllAndTallies ==
  /\ [](c_pc \in {"loop", "done", "ZeroDivisionError"})
  /\ [](c_pc = "loop" => (n_all = c_i - 1 /\ c_i <= Len(script_files) + 1))
  /\ (c_pc = "loop") ~> LoopDone

\* a run of src/run/run_module_stat.py ended after a file without companion, one
\* with a four-part node-spec and one that used R and was counted
C23_Witness ==
  /\ c_pc = "done"
  /\ variant = "run"
  /\ script_files = <<o_missing, o_four_parts, o_R>>
  /\ n_all = 3
  /\ n_no_JB = 2
  /\ n_OK = 1
  /\ x_R \in DOMAIN module_counter
  /\ module_counter[x_R] = 1

====
